---- MODULE Spec2Model ----
(***************************************************************************)
(* Vision-Assist: the scan page (src/app/scan/page.tsx), the chat page and *)
(* the speech recognition hook (src/unnamed/part_000) as one state machine. *)
(* A page is a React function component: a handler reads the state of the  *)
(* render that created it, so a handler that re-schedules itself keeps the *)
(* values it was created with (the field "snap" of a request below).       *)
(***************************************************************************)
EXTENDS Integers, Sequences, FiniteSets, TLC

\* ------------------------------------------------------------- bounds
MaxCaptures == 4      \* accepted captures in a session of capture commands
MaxCommandCaptures == 1  \* accepted captures in a session of the full vocabulary
MaxPending == 2       \* analysis requests pending at once
MaxAnnounce == 2      \* failures followed per analysis request
MaxChatSends == 5     \* requests followed per chat message
MaxCamPending == 1    \* getUserMedia calls awaiting their answer
MaxStreams == 2       \* media streams with running tracks
MaxFx == 6            \* recorded side effects per utterance

\* ---------------------------------------------------------- constants
maxRetries == 3

\* ------------------------------------------------------------ strings
Utterances ==
  { "please go home now", "take a picture please", "what is in front of me",
    "take picture please", "Start Camera", "stop camera and go back",
    "open the video analyzer", "emergency analyze", "go to assistant emergency",
    "this is an emergency", "close camera" }

\* the utterances of a session that drives the analysis pipeline
CaptureUtterances == { "take picture please", "what is in front of me" }

\* The characters of every string the interpreter looks at.
Chars(s) ==
  CASE s = "please go home now" -> <<"p", "l", "e", "a", "s", "e", " ", "g", "o", " ", "h", "o", "m", "e", " ", "n", "o", "w">>
    [] s = "take a picture please" -> <<"t", "a", "k", "e", " ", "a", " ", "p", "i", "c", "t", "u", "r", "e", " ", "p", "l", "e", "a", "s", "e">>
    [] s = "what is in front of me" -> <<"w", "h", "a", "t", " ", "i", "s", " ", "i", "n", " ", "f", "r", "o", "n", "t", " ", "o", "f", " ", "m", "e">>
    [] s = "take picture please" -> <<"t", "a", "k", "e", " ", "p", "i", "c", "t", "u", "r", "e", " ", "p", "l", "e", "a", "s", "e">>
    [] s = "Start Camera" -> <<"S", "t", "a", "r", "t", " ", "C", "a", "m", "e", "r", "a">>
    [] s = "stop camera and go back" -> <<"s", "t", "o", "p", " ", "c", "a", "m", "e", "r", "a", " ", "a", "n", "d", " ", "g", "o", " ", "b", "a", "c", "k">>
    [] s = "open the video analyzer" -> <<"o", "p", "e", "n", " ", "t", "h", "e", " ", "v", "i", "d", "e", "o", " ", "a", "n", "a", "l", "y", "z", "e", "r">>
    [] s = "emergency analyze" -> <<"e", "m", "e", "r", "g", "e", "n", "c", "y", " ", "a", "n", "a", "l", "y", "z", "e">>
    [] s = "go to assistant emergency" -> <<"g", "o", " ", "t", "o", " ", "a", "s", "s", "i", "s", "t", "a", "n", "t", " ", "e", "m", "e", "r", "g", "e", "n", "c", "y">>
    [] s = "this is an emergency" -> <<"t", "h", "i", "s", " ", "i", "s", " ", "a", "n", " ", "e", "m", "e", "r", "g", "e", "n", "c", "y">>
    [] s = "close camera" -> <<"c", "l", "o", "s", "e", " ", "c", "a", "m", "e", "r", "a">>
    [] s = "picture" -> <<"p", "i", "c", "t", "u", "r", "e">>
    [] s = "go back" -> <<"g", "o", " ", "b", "a", "c", "k">>
    [] s = "go home" -> <<"g", "o", " ", "h", "o", "m", "e">>
    [] s = "go to gpt" -> <<"g", "o", " ", "t", "o", " ", "g", "p", "t">>
    [] s = "go to assistant" -> <<"g", "o", " ", "t", "o", " ", "a", "s", "s", "i", "s", "t", "a", "n", "t">>
    [] s = "start camera" -> <<"s", "t", "a", "r", "t", " ", "c", "a", "m", "e", "r", "a">>
    [] s = "open camera" -> <<"o", "p", "e", "n", " ", "c", "a", "m", "e", "r", "a">>
    [] s = "stop camera" -> <<"s", "t", "o", "p", " ", "c", "a", "m", "e", "r", "a">>
    [] s = "close camera" -> <<"c", "l", "o", "s", "e", " ", "c", "a", "m", "e", "r", "a">>
    [] s = "take picture" -> <<"t", "a", "k", "e", " ", "p", "i", "c", "t", "u", "r", "e">>
    [] s = "snap photo" -> <<"s", "n", "a", "p", " ", "p", "h", "o", "t", "o">>
    [] s = "analyze" -> <<"a", "n", "a", "l", "y", "z", "e">>
    [] s = "emergency" -> <<"e", "m", "e", "r", "g", "e", "n", "c", "y">>
    [] s = "go to scan" -> <<"g", "o", " ", "t", "o", " ", "s", "c", "a", "n">>
    [] s = "video analyzer" -> <<"v", "i", "d", "e", "o", " ", "a", "n", "a", "l", "y", "z", "e", "r">>

UpperCase == <<"A","B","C","D","E","F","G","H","I","J","K","L","M",
               "N","O","P","Q","R","S","T","U","V","W","X","Y","Z">>
LowerCase == <<"a","b","c","d","e","f","g","h","i","j","k","l","m",
               "n","o","p","q","r","s","t","u","v","w","x","y","z">>

\* String.prototype.toLowerCase on a character sequence
ToLowerCase(cs) ==
  [i \in 1..Len(cs) |->
     IF \E k \in 1..26 : UpperCase[k] = cs[i]
     THEN LowerCase[CHOOSE k \in 1..26 : UpperCase[k] = cs[i]]
     ELSE cs[i]]

\* String.prototype.includes: kw occurs in cs as a contiguous run
Includes(cs, kw) ==
  \E i \in 0..(Len(cs) - Len(kw)) :
     \A j \in 1..Len(kw) : cs[i + j] = kw[j]

Has(command, kw) == Includes(command, Chars(kw))

\* ------------------------------------------- the command interpreter
IsHomeCmd(command) == Has(command, "go back") \/ Has(command, "go home")
IsScanCrossCmd(command) == Has(command, "go to gpt") \/ Has(command, "go to assistant")
IsStartCmd(command) == Has(command, "start camera") \/ Has(command, "open camera")
IsStopCmd(command) == Has(command, "stop camera") \/ Has(command, "close camera")
\* the capture rule matching on the word "picture" alone
IsCaptureCmd_anyPicture(command) ==
  Has(command, "picture") \/ Has(command, "snap photo") \/ Has(command, "analyze")
IsCaptureCmd(command) ==
  Has(command, "take picture") \/ Has(command, "snap photo") \/ Has(command, "analyze")
IsEmergencyCmd(command) == Has(command, "emergency")
IsChatCrossCmd(command) == Has(command, "go to scan") \/ Has(command, "video analyzer")

\* the scan interpreter with the stop-camera rule tried before navigate-home
ScanIntent_stopFirst(t, cam) ==
  LET command == ToLowerCase(Chars(t)) IN
  IF IsStopCmd(command) THEN "stop"
  ELSE IF IsHomeCmd(command) THEN "home"
  ELSE IF IsScanCrossCmd(command) THEN "cross"
  ELSE IF IsStartCmd(command) THEN "start"
  ELSE IF IsCaptureCmd(command) THEN "capture"
  ELSE IF IsEmergencyCmd(command) THEN "emergency"
  ELSE IF cam THEN "question"
  ELSE "help"

\* The branch the scan page's transcript effect takes
ScanIntent(t, cam) ==
  LET command == ToLowerCase(Chars(t)) IN
  IF IsHomeCmd(command) THEN "home"
  ELSE IF IsScanCrossCmd(command) THEN "cross"
  ELSE IF IsStartCmd(command) THEN "start"
  ELSE IF IsStopCmd(command) THEN "stop"
  ELSE IF IsCaptureCmd(command) THEN "capture"
  ELSE IF IsEmergencyCmd(command) THEN "emergency"
  ELSE IF cam THEN "question"
  ELSE "help"

\* The branch the chat page's transcript effect takes
ChatIntent(t) ==
  LET command == ToLowerCase(Chars(t)) IN
  IF IsHomeCmd(command) THEN "home"
  ELSE IF IsChatCrossCmd(command) THEN "cross"
  ELSE IF IsEmergencyCmd(command) THEN "emergency"
  ELSE "chat"

\* both interpreters, tabulated over the utterances
ScanBranch == [t \in Utterances |-> [cam \in BOOLEAN |-> ScanIntent(t, cam)]]
ChatBranch == [t \in Utterances |-> ChatIntent(t)]

\* -------------------------------------------------------------- state
VARIABLES
  page,            \* which page component is mounted: "scan" or "gpt"
  session,         \* what the user says in this session: "commands" or "captures"
  route,           \* the router's current path
  isListening,     \* page state (useState)
  isProcessing,    \* page state
  retryCount,      \* page state
  cameraActive,    \* scan page state
  analysisResult,  \* scan page state, with the request that wrote it
  userQuestion,    \* scan page state
  messages,        \* chat page state: the message log
  transcript,      \* speech recognition hook state
  recognition,     \* hook state: TRUE when the browser offers an engine
  recActive,       \* hook state isListening
  recError,        \* hook state error
  engine,          \* the browser engine's session: idle, running, ending
  srcObject,       \* TRUE when a stream is attached to the video element
  liveStreams,     \* acquired streams whose tracks still run
  camPending,      \* getUserMedia promises not yet settled
  camNotice,       \* what the last startCamera or stopCamera call showed and spoke
  requests,        \* analysis requests awaiting a response or a retry timer
  captures,        \* frames drawn and encoded so far
  chats,           \* chat requests awaiting a response or a retry timer
  lastDeps,        \* dependency values of the transcript effect's last run
  fx,              \* what the transcript effect did for the current utterance
  fxCmd            \* the utterance fx belongs to

vars ==
  << page, session, route, isListening, isProcessing, retryCount, cameraActive,
     analysisResult, userQuestion, messages, transcript, recognition,
     recActive, recError, engine, srcObject,
     liveStreams, camPending, camNotice, requests, captures, chats, lastDeps, fx, fxCmd >>

recVars == << recognition, recActive, recError, engine >>
camVars == << srcObject, liveStreams, camPending, camNotice >>
scanVars == << analysisResult, userQuestion, requests, captures >>
chatVars == << messages, chats >>
fxVars == << fx, fxCmd >>
envVars == << page, session >>

\* ---------------------------------------------------------- constants
MOCK_RESPONSES ==
  << "I can see what appears to be an indoor space. There are no obvious obstacles in the immediate vicinity.",
     "This looks like an outdoor area. The path ahead seems clear, but proceed with caution.",
     "I can see what might be furniture or objects in the frame. Please be careful when moving forward.",
     "The image shows what appears to be a room with some furniture. There are no immediate hazards visible.",
     "I can see what looks like a pathway. It appears to be clear of obstacles." >>

DefaultPrompt ==
  "Describe this scene in detail for a visually impaired person. Focus on any obstacles, people, or important elements."
ClickEvent == "[object Object]"    \* String(event) of the click a button handler receives
Greeting == [role |-> "assistant", content |-> "Hello! How can I help you today?"]
Apology ==
  [role |-> "assistant",
   content |-> "I'm sorry, I encountered an error processing your request. Please try again."]
NumMock == Len(MOCK_RESPONSES)
NoResult == [id |-> 0, text |-> << >>]
ImagePrefix == "data:image/jpeg;base64"
Payloads == { "", "/9j/4AAQSkZJRg" }    \* an empty canvas encodes to "data:,"

\* --------------------------------------------------- pure operations
\* getMockResponse ignoring its question
getMockResponse_noQuestion(idx, question) == << MOCK_RESPONSES[idx] >>

\* getMockResponse, with the random index as its input
getMockResponse(idx, question) ==
  IF question # ""
  THEN << MOCK_RESPONSES[idx], " Regarding your question: \"", question,
          "\", I'm currently unable to provide a specific answer as I'm operating in offline mode." >>
  ELSE << MOCK_RESPONSES[idx] >>

\* imageBase64.split(",")[1]
Base64Data(img) == img[2]

\* the prompt of an analysis request
PromptOf(question) == IF question # "" THEN question ELSE DefaultPrompt

\* a finally block that clears the processing state whenever it runs
SettlesProcessing_always(snap) == TRUE

\* the finally block's condition, on the retryCount the invocation closed over
SettlesProcessing(snap) == snap >= maxRetries

\* the catch block's condition for scheduling a retry
RetryAllowed(snap) == snap < maxRetries

\* the count a scheduled retry announces and stores
NextRetryCount(snap) == snap + 1

\* ------------------------------------------------- processImage steps
\* What one step of processImage leaves behind: the request if it is still
\* pending (keep), the retry count it stores (rc, -1 for none), whether the
\* finally block cleared the processing state (settle), the result it stored.
Outcome(keep, rc, settle, hasRes, res) ==
  [keep |-> keep, rc |-> rc, settle |-> settle, hasRes |-> hasRes, res |-> res]

\* a catch block that reads the retry count stored at the time it runs
ProcessImageCatch_live(c, idx) ==
  IF RetryAllowed(retryCount)
  THEN Outcome({[c EXCEPT !.phase = "timer",
                          !.announced = Append(@, NextRetryCount(retryCount))]},
               NextRetryCount(retryCount), FALSE, FALSE, NoResult)
  ELSE Outcome({}, IF SettlesProcessing(c.snap) THEN 0 ELSE -1,
               SettlesProcessing(c.snap), TRUE,
               [id |-> c.id, text |-> getMockResponse(idx, c.q)])

\* the catch and finally blocks of processImage
ProcessImageCatch(c, idx) ==
  IF RetryAllowed(c.snap)
  THEN Outcome({[c EXCEPT !.phase = "timer",
                          !.announced = Append(@, NextRetryCount(c.snap))]},
               NextRetryCount(c.snap), FALSE, FALSE, NoResult)
  ELSE Outcome({}, IF SettlesProcessing(c.snap) THEN 0 ELSE -1,
               SettlesProcessing(c.snap), TRUE,
               [id |-> c.id, text |-> getMockResponse(idx, c.q)])

\* the success path of processImage (lines 238-256) and its finally block
ProcessImageSuccess(c) ==
  Outcome({}, IF SettlesProcessing(c.snap) THEN 0 ELSE -1, SettlesProcessing(c.snap),
          TRUE, [id |-> c.id, text |-> << "analysis" >>])

\* processImage up to its first await: the payload check, then the fetch
ProcessImageCall(c, idx) ==
  IF Base64Data(c.img) = ""
  THEN ProcessImageCatch(c, idx)
  ELSE Outcome({[c EXCEPT !.phase = "fetch", !.sent = @ + 1]},
               -1, FALSE, FALSE, NoResult)

\* The state updates of one processImage step, batched with its caller's:
\* rcBase and uq are the caller's writes, invoked tells that the step began
\* with setIsProcessing(true).
ApplyOutcome(o, rest, rcBase, invoked, uq) ==
  /\ requests' = rest \cup o.keep
  /\ retryCount' = IF o.rc = -1 THEN rcBase ELSE o.rc
  /\ isProcessing' = IF o.settle THEN FALSE ELSE (invoked \/ isProcessing)
  /\ userQuestion' = IF o.settle THEN "" ELSE uq
  /\ analysisResult' = IF o.hasRes THEN o.res ELSE analysisResult

\* the utterances the recognizer delivers, and the captures followed, per session
Vocabulary == IF session = "commands" THEN Utterances ELSE CaptureUtterances
CaptureLimit == IF session = "commands" THEN MaxCommandCaptures ELSE MaxCaptures

\* the request a capture hands to processImage
NewRequest(id, snap, question, data) ==
  [id |-> id, snap |-> snap, q |-> question, img |-> << ImagePrefix, data >>,
   phase |-> "new", sent |-> 0, announced |-> << >>]

\* captureImage with the camera active (lines 185-209): draw and encode the
\* frame, reset the retry count, call processImage
CaptureAccepted(question, uq) ==
  /\ captures < CaptureLimit
  /\ Cardinality(requests) < MaxPending
  /\ captures' = captures + 1
  /\ \E data \in Payloads, idx \in 1..NumMock :
       ApplyOutcome(
         ProcessImageCall(NewRequest(captures + 1, retryCount, question, data), idx),
         requests, 0, TRUE, uq)

\* ------------------------------------------------------- the adapters
\* useSpeechRecognition.startListening
AdapterStart ==
  IF recognition
  THEN IF engine = "idle"
       THEN [engine |-> "running", recActive |-> TRUE, recError |-> "null"]
       ELSE [engine |-> engine, recActive |-> recActive,
             recError |-> "Error starting speech recognition"]
  ELSE [engine |-> engine, recActive |-> recActive,
        recError |-> "Speech recognition not initialized"]

\* useSpeechRecognition.stopListening
AdapterStop ==
  IF recognition
  THEN [engine |-> IF engine = "running" THEN "ending" ELSE engine,
        recActive |-> FALSE, recError |-> recError]
  ELSE [engine |-> engine, recActive |-> recActive, recError |-> recError]

SetAdapter(a) ==
  /\ engine' = a.engine
  /\ recActive' = a.recActive
  /\ recError' = a.recError
  /\ UNCHANGED recognition

\* a toast and a spoken sentence ("" for none)
Notice(title, spoken) == [toast |-> title, spoken |-> spoken]
NoNotice == Notice("", "")
CameraErrorText == "Could not access camera. Please check permissions."

\* stopCamera leaving the tracks and the flag alone but always toasting
StopCamera_alwaysToasts ==
  IF srcObject
  THEN /\ liveStreams' = liveStreams - 1
       /\ srcObject' = FALSE
       /\ cameraActive' = FALSE
       /\ camNotice' = Notice("Camera stopped", "")
       /\ UNCHANGED camPending
  ELSE /\ camNotice' = Notice("Camera stopped", "")
       /\ UNCHANGED << srcObject, liveStreams, camPending, cameraActive >>

\* stopCamera
StopCamera ==
  IF srcObject
  THEN /\ liveStreams' = liveStreams - 1
       /\ srcObject' = FALSE
       /\ cameraActive' = FALSE
       /\ camNotice' = Notice("Camera stopped", "")
       /\ UNCHANGED camPending
  ELSE UNCHANGED << camVars, cameraActive >>

\* startCamera up to its await
StartCamera ==
  /\ camPending < MaxCamPending
  /\ camPending' = camPending + 1
  /\ UNCHANGED << srcObject, liveStreams, cameraActive, camNotice >>

\* ------------------------------------------------ the transcript effect
PagePath == IF page = "scan" THEN "/scan" ELSE "/gpt"
Mounted == route = PagePath

Deps ==
  IF page = "scan" THEN << transcript, isListening, cameraActive >>
  ELSE << transcript, isListening >>

EffectDue == Deps # lastDeps

\* an event handler runs on a mounted page whose effects have been flushed
Ready == Mounted /\ ~EffectDue

Ev(op, arg) == [op |-> op, arg |-> arg, cam |-> cameraActive]

Record(evs) ==
  /\ fx' = IF Len(fx) + Len(evs) <= MaxFx THEN fx \o evs ELSE fx
  /\ UNCHANGED fxCmd

EffectRuns(p) ==
  /\ Mounted
  /\ EffectDue
  /\ page = p
  /\ transcript # ""
  /\ isListening
  /\ lastDeps' = Deps

\* the early return of both effects
EffectIdle ==
  /\ Mounted
  /\ EffectDue
  /\ (transcript = "" \/ ~isListening)
  /\ lastDeps' = Deps
  /\ UNCHANGED << envVars, route, isListening, isProcessing, retryCount, cameraActive,
                  scanVars, chatVars, transcript, recVars, camVars, fxVars >>

\* what a call of captureImage(question) shows to an observer
CaptureEvents(question) ==
  IF cameraActive
  THEN << Ev("captureImage", question), Ev("processImage", PromptOf(question)) >>
  ELSE << Ev("captureImage", question), Ev("toast", "Camera not active") >>

\* captureImage resetting the retry count before it looks at the camera
CaptureImage_resetsFirst(question, uq) ==
  IF cameraActive
  THEN CaptureAccepted(question, uq)
  ELSE /\ userQuestion' = uq
       /\ retryCount' = 0
       /\ UNCHANGED << requests, captures, analysisResult, isProcessing >>

\* captureImage(question); uq is the caller's own write of userQuestion
CaptureImage(question, uq) ==
  IF cameraActive
  THEN CaptureAccepted(question, uq)
  ELSE /\ userQuestion' = uq
       /\ UNCHANGED << requests, captures, analysisResult, retryCount, isProcessing >>

ScanEffectHome ==
  /\ EffectRuns("scan")
  /\ ScanBranch[transcript][cameraActive] = "home"
  /\ route' = "/"
  /\ Record(<< Ev("speak", "Going back to home page"), Ev("push", "/") >>)
  /\ UNCHANGED << envVars, isListening, isProcessing, retryCount, cameraActive,
                  scanVars, chatVars, transcript, recVars, camVars >>

ScanEffectCross ==
  /\ EffectRuns("scan")
  /\ ScanBranch[transcript][cameraActive] = "cross"
  /\ route' = "/gpt"
  /\ Record(<< Ev("speak", "Opening voice assistant"), Ev("push", "/gpt") >>)
  /\ UNCHANGED << envVars, isListening, isProcessing, retryCount, cameraActive,
                  scanVars, chatVars, transcript, recVars, camVars >>

ScanEffectStart ==
  /\ EffectRuns("scan")
  /\ ScanBranch[transcript][cameraActive] = "start"
  /\ StartCamera
  /\ Record(<< Ev("speak", "Starting camera"), Ev("startCamera", "") >>)
  /\ UNCHANGED << envVars, route, isListening, isProcessing, retryCount,
                  scanVars, chatVars, transcript, recVars >>

ScanEffectStop ==
  /\ EffectRuns("scan")
  /\ ScanBranch[transcript][cameraActive] = "stop"
  /\ StopCamera
  /\ Record(<< Ev("speak", "Stopping camera"), Ev("stopCamera", "") >>)
  /\ UNCHANGED << envVars, route, isListening, isProcessing, retryCount,
                  scanVars, chatVars, transcript, recVars >>

ScanEffectCapture ==
  /\ EffectRuns("scan")
  /\ ScanBranch[transcript][cameraActive] = "capture"
  /\ CaptureImage("", userQuestion)
  /\ Record(<< Ev("speak", "Taking picture for analysis") >> \o CaptureEvents(""))
  /\ UNCHANGED << envVars, route, isListening, cameraActive, chatVars, transcript,
                  recVars, camVars >>

ScanEffectEmergency ==
  /\ EffectRuns("scan")
  /\ ScanBranch[transcript][cameraActive] = "emergency"
  /\ Record(<< Ev("speak", "Activating emergency contact"),
               Ev("toast", "Emergency Contact") >>)
  /\ UNCHANGED << envVars, route, isListening, isProcessing, retryCount, cameraActive,
                  scanVars, chatVars, transcript, recVars, camVars >>

\* the question branch calling captureImage without the transcript
ScanEffectQuestion_noQuestion ==
  /\ EffectRuns("scan")
  /\ ScanBranch[transcript][cameraActive] = "question"
  /\ CaptureImage("", transcript)
  /\ Record(<< Ev("setUserQuestion", transcript) >> \o CaptureEvents(""))
  /\ UNCHANGED << envVars, route, isListening, cameraActive, chatVars, transcript,
                  recVars, camVars >>

ScanEffectQuestion ==
  /\ EffectRuns("scan")
  /\ ScanBranch[transcript][cameraActive] = "question"
  /\ CaptureImage(transcript, transcript)
  /\ Record(<< Ev("setUserQuestion", transcript) >> \o CaptureEvents(transcript))
  /\ UNCHANGED << envVars, route, isListening, cameraActive, chatVars, transcript,
                  recVars, camVars >>

\* the help branch without its resetTranscript()
ScanEffectHelp_keepsTranscript ==
  /\ EffectRuns("scan")
  /\ ScanBranch[transcript][cameraActive] = "help"
  /\ Record(<< Ev("speak", "You can say \"take picture\", \"start camera\", \"stop camera\", or \"go home\"") >>)
  /\ UNCHANGED << envVars, route, isListening, isProcessing, retryCount, cameraActive,
                  scanVars, chatVars, transcript, recVars, camVars >>

ScanEffectHelp ==
  /\ EffectRuns("scan")
  /\ ScanBranch[transcript][cameraActive] = "help"
  /\ transcript' = ""
  /\ Record(<< Ev("speak", "You can say \"take picture\", \"start camera\", \"stop camera\", or \"go home\""),
               Ev("resetTranscript", "") >>)
  /\ UNCHANGED << envVars, route, isListening, isProcessing, retryCount, cameraActive,
                  scanVars, chatVars, recVars, camVars >>

\* ------------------------------------------------ scan page controls
\* the camera button while the camera is active: onClick = captureImage,
\* which receives the click event as its question
CaptureButton ==
  /\ Ready
  /\ page = "scan"
  /\ ~isProcessing
  /\ cameraActive
  /\ CaptureImage(ClickEvent, userQuestion)
  /\ UNCHANGED << envVars, route, isListening, cameraActive, chatVars, transcript,
                  recVars, camVars, lastDeps, fxVars >>

\* the camera button while the camera is inactive: onClick = startCamera
StartButton ==
  /\ Ready
  /\ page = "scan"
  /\ ~isProcessing
  /\ ~cameraActive
  /\ StartCamera
  /\ UNCHANGED << envVars, route, isListening, isProcessing, retryCount, scanVars,
                  chatVars, transcript, recVars, lastDeps, fxVars >>

StopButton ==
  /\ Ready
  /\ page = "scan"
  /\ cameraActive
  /\ StopCamera
  /\ UNCHANGED << envVars, route, isListening, isProcessing, retryCount, scanVars,
                  chatVars, transcript, recVars, lastDeps, fxVars >>

ScanBackButton ==
  /\ Ready
  /\ page = "scan"
  /\ StopCamera
  /\ route' = "/"
  /\ UNCHANGED << envVars, isListening, isProcessing, retryCount, scanVars,
                  chatVars, transcript, recVars, lastDeps, fxVars >>

\* getUserMedia resolves: attach the stream, set cameraActive
CameraGranted ==
  /\ Ready
  /\ camPending > 0
  /\ liveStreams < MaxStreams
  /\ camPending' = camPending - 1
  /\ liveStreams' = liveStreams + 1
  /\ srcObject' = TRUE
  /\ cameraActive' = TRUE
  /\ camNotice' = Notice("Camera activated", "")
  /\ UNCHANGED << envVars, route, isListening, isProcessing, retryCount, scanVars,
                  chatVars, transcript, recVars, lastDeps, fxVars >>

\* the catch block of startCamera setting the active flag all the same
CameraDenied_setsActive ==
  /\ Ready
  /\ camPending > 0
  /\ camPending' = camPending - 1
  /\ cameraActive' = TRUE
  /\ camNotice' = Notice("Camera Error", CameraErrorText)
  /\ UNCHANGED << envVars, route, isListening, isProcessing, retryCount,
                  scanVars, chatVars, transcript, recVars, srcObject, liveStreams,
                  lastDeps, fxVars >>

\* getUserMedia rejects: toast and speak the failure
CameraDenied ==
  /\ Ready
  /\ camPending > 0
  /\ camPending' = camPending - 1
  /\ camNotice' = Notice("Camera Error", CameraErrorText)
  /\ UNCHANGED << envVars, route, isListening, isProcessing, retryCount, cameraActive,
                  scanVars, chatVars, transcript, recVars, srcObject, liveStreams,
                  lastDeps, fxVars >>

\* toggleListening of either page
ToggleListening ==
  IF isListening
  THEN /\ SetAdapter(AdapterStop)
       /\ isListening' = FALSE
  ELSE /\ SetAdapter(AdapterStart)
       /\ isListening' = TRUE
          
ScanToggleListening ==
  /\ Ready
  /\ page = "scan"
  /\ ~isProcessing
  /\ ToggleListening
  /\ UNCHANGED << envVars, route, isProcessing, retryCount, cameraActive, scanVars,
                  chatVars, transcript, camVars, lastDeps, fxVars >>

\* /api/analyze-image answers a pending request with success
AnalysisSucceeds ==
  /\ Ready
  /\ \E c \in requests :
       /\ c.phase = "fetch"
       /\ ApplyOutcome(ProcessImageSuccess(c), requests \ {c}, retryCount, FALSE,
                       userQuestion)
  /\ UNCHANGED << envVars, route, isListening, cameraActive, captures, chatVars,
                  transcript, recVars, camVars, lastDeps, fxVars >>

\* /api/analyze-image answers a pending request with a non-success
AnalysisFails ==
  /\ Ready
  /\ \E c \in requests, idx \in 1..NumMock :
       /\ c.phase = "fetch"
       /\ ApplyOutcome(ProcessImageCatch(c, idx), requests \ {c}, retryCount, FALSE,
                       userQuestion)
  /\ UNCHANGED << envVars, route, isListening, cameraActive, captures, chatVars,
                  transcript, recVars, camVars, lastDeps, fxVars >>

\* the retry timer of processImage fires: processImage(imageBase64, question)
\* of the render that scheduled it
RetryTimer ==
  /\ Ready
  /\ \E c \in requests, idx \in 1..NumMock :
       /\ c.phase = "timer"
       /\ Len(c.announced) < MaxAnnounce
       /\ ApplyOutcome(ProcessImageCall(c, idx), requests \ {c}, retryCount, TRUE,
                       userQuestion)
  /\ UNCHANGED << envVars, route, isListening, cameraActive, captures, chatVars,
                  transcript, recVars, camVars, lastDeps, fxVars >>

\* ---------------------------------------------------------- chat page
\* handleUserMessage up to its await (lines 87-107)
HandleUserMessageCall(c, rest) ==
  /\ messages' = Append(messages, [role |-> "user", content |-> c.msg])
  /\ SetAdapter(AdapterStop)
  /\ isListening' = FALSE
  /\ isProcessing' = TRUE
  /\ retryCount' = 0
  /\ chats' = rest \cup {[c EXCEPT !.phase = "fetch", !.sent = @ + 1]}

\* the request handleUserMessage(message) starts from the current render
NewChat(message) ==
  [snap |-> retryCount, msg |-> message, hist |-> messages, phase |-> "new",
   sent |-> 0, announced |-> << >>]

\* a request body built from the log as it is when the request is looked at
ChatBody_live(c) == messages \o << [role |-> "user", content |-> c.msg] >>

\* the body of a /api/chat request
ChatBody(c) == c.hist \o << [role |-> "user", content |-> c.msg] >>

ChatEffectHome ==
  /\ EffectRuns("gpt")
  /\ ChatBranch[transcript] = "home"
  /\ route' = "/"
  /\ Record(<< Ev("speak", "Going back to home page"), Ev("push", "/") >>)
  /\ UNCHANGED << envVars, isListening, isProcessing, retryCount, cameraActive,
                  scanVars, chatVars, transcript, recVars, camVars >>

ChatEffectCross ==
  /\ EffectRuns("gpt")
  /\ ChatBranch[transcript] = "cross"
  /\ route' = "/scan"
  /\ Record(<< Ev("speak", "Opening video analyzer"), Ev("push", "/scan") >>)
  /\ UNCHANGED << envVars, isListening, isProcessing, retryCount, cameraActive,
                  scanVars, chatVars, transcript, recVars, camVars >>

ChatEffectEmergency ==
  /\ EffectRuns("gpt")
  /\ ChatBranch[transcript] = "emergency"
  /\ Record(<< Ev("speak", "Activating emergency contact"),
               Ev("toast", "Emergency Contact") >>)
  /\ UNCHANGED << envVars, route, isListening, isProcessing, retryCount, cameraActive,
                  scanVars, chatVars, transcript, recVars, camVars >>

ChatEffectMessage ==
  /\ EffectRuns("gpt")
  /\ ChatBranch[transcript] = "chat"
  /\ HandleUserMessageCall(NewChat(transcript), chats)
  /\ transcript' = ""
  /\ Record(<< Ev("handleUserMessage", transcript), Ev("resetTranscript", "") >>)
  /\ UNCHANGED << envVars, route, cameraActive, scanVars, camVars >>

\* /api/chat answers with success (lines 113-127, 163-168)
ChatSucceeds ==
  /\ Ready
  /\ \E c \in chats :
       /\ c.phase = "fetch"
       /\ messages' = Append(messages, [role |-> "assistant", content |-> "aiResponse"])
       /\ isProcessing' = IF SettlesProcessing(c.snap) THEN FALSE ELSE isProcessing
       /\ retryCount' = IF SettlesProcessing(c.snap) THEN 0 ELSE retryCount
       /\ chats' = chats \ {c}
  /\ UNCHANGED << envVars, route, isListening, cameraActive, scanVars, transcript,
                  recVars, camVars, lastDeps, fxVars >>

\* /api/chat answers with a non-success (lines 109-111, 128-168)
ChatFails ==
  /\ Ready
  /\ \E c \in chats :
       /\ c.phase = "fetch"
       /\ IF RetryAllowed(c.snap)
          THEN /\ retryCount' = NextRetryCount(c.snap)
               /\ chats' = (chats \ {c}) \cup
                    {[c EXCEPT !.phase = "timer",
                               !.announced = Append(@, NextRetryCount(c.snap))]}
               /\ UNCHANGED << messages, isProcessing >>
          ELSE /\ messages' = Append(messages, Apology)
               /\ isProcessing' = IF SettlesProcessing(c.snap) THEN FALSE ELSE isProcessing
               /\ retryCount' = IF SettlesProcessing(c.snap) THEN 0 ELSE retryCount
               /\ chats' = chats \ {c}
  /\ UNCHANGED << envVars, route, isListening, cameraActive, scanVars, transcript,
                  recVars, camVars, lastDeps, fxVars >>

\* the retry timer of handleUserMessage fires: handleUserMessage(message) of
\* the render that scheduled it
ChatRetryTimer ==
  /\ Ready
  /\ \E c \in chats :
       /\ c.phase = "timer"
       /\ c.sent < MaxChatSends
       /\ HandleUserMessageCall(c, chats \ {c})
  /\ UNCHANGED << envVars, route, cameraActive, scanVars, transcript,
                  camVars, lastDeps, fxVars >>

ChatToggleListening ==
  /\ Ready
  /\ page = "gpt"
  /\ ~isProcessing
  /\ ToggleListening
  /\ UNCHANGED << envVars, route, isProcessing, retryCount, cameraActive, scanVars,
                  chatVars, transcript, camVars, lastDeps, fxVars >>

ChatBackButton ==
  /\ Ready
  /\ page = "gpt"
  /\ route' = "/"
  /\ UNCHANGED << envVars, isListening, isProcessing, retryCount, cameraActive,
                  scanVars, chatVars, transcript, recVars, camVars, lastDeps, fxVars >>

\* ------------------------------------------- speech engine callbacks
\* recognition.onresult: the transcript is replaced by the new segment
OnResult ==
  /\ Ready
  /\ engine = "running"
  /\ \E t \in Vocabulary :
       /\ t # transcript
       /\ transcript' = t
       /\ fxCmd' = t
  /\ fx' = << >>
  /\ UNCHANGED << envVars, route, isListening, isProcessing, retryCount, cameraActive,
                  scanVars, chatVars, recVars, camVars, lastDeps >>

\* recognition.onerror; the engine then ends its session
OnError ==
  /\ Ready
  /\ engine = "running"
  /\ recError' = "no-speech"
  /\ recActive' = FALSE
  /\ engine' = "ending"
  /\ UNCHANGED << envVars, route, isListening, isProcessing, retryCount, cameraActive,
                  scanVars, chatVars, transcript, recognition, camVars,
                  lastDeps, fxVars >>

\* an onend handler that starts the next session by itself
OnEnd_restarts ==
  /\ Ready
  /\ engine \in {"running", "ending"}
  /\ engine' = "running"
  /\ recActive' = TRUE
  /\ UNCHANGED << envVars, route, isListening, isProcessing, retryCount, cameraActive,
                  scanVars, chatVars, transcript, recognition, recError,
                  camVars, lastDeps, fxVars >>

\* recognition.onend: after stop(), after an error, or by itself
OnEnd ==
  /\ Ready
  /\ engine \in {"running", "ending"}
  /\ engine' = "idle"
  /\ recActive' = FALSE
  /\ UNCHANGED << envVars, route, isListening, isProcessing, retryCount, cameraActive,
                  scanVars, chatVars, transcript, recognition, recError,
                  camVars, lastDeps, fxVars >>

\* ------------------------------------------------------ specification
Init ==
  /\ page \in {"scan", "gpt"}
  /\ session \in IF page = "scan" THEN {"commands", "captures"} ELSE {"commands"}
  /\ route = PagePath
  /\ isListening = FALSE
  /\ isProcessing = FALSE
  /\ retryCount = 0
  /\ cameraActive = FALSE
  /\ analysisResult = NoResult
  /\ userQuestion = ""
  /\ messages = << Greeting >>
  /\ transcript = ""
  /\ recognition \in BOOLEAN
  /\ recActive = FALSE
  /\ recError = IF recognition THEN "null"
                ELSE "Speech recognition not supported in this browser"
  /\ engine = "idle"
  /\ srcObject = FALSE
  /\ liveStreams = 0
  /\ camPending = 0
  /\ camNotice = NoNotice
  /\ requests = {}
  /\ captures = 0
  /\ chats = {}
  /\ lastDeps = Deps
  /\ fx = << >>
  /\ fxCmd = ""

Next ==
  \/ EffectIdle
  \/ ScanEffectHome
  \/ ScanEffectCross
  \/ ScanEffectStart
  \/ ScanEffectStop
  \/ ScanEffectCapture
  \/ ScanEffectEmergency
  \/ ScanEffectQuestion
  \/ ScanEffectHelp
  \/ CaptureButton
  \/ StartButton
  \/ StopButton
  \/ ScanBackButton
  \/ CameraGranted
  \/ CameraDenied
  \/ ScanToggleListening
  \/ AnalysisSucceeds
  \/ AnalysisFails
  \/ RetryTimer
  \/ ChatEffectHome
  \/ ChatEffectCross
  \/ ChatEffectEmergency
  \/ ChatEffectMessage
  \/ ChatSucceeds
  \/ ChatFails
  \/ ChatRetryTimer
  \/ ChatToggleListening
  \/ ChatBackButton
  \/ OnResult
  \/ OnError
  \/ OnEnd

Spec == Init /\ [][Next]_vars

\* =============================================================== claims
Range(s) == { s[i] : i \in 1..Len(s) }
UpTo(n) == [i \in 1..n |-> i]
Count(s, e) == Cardinality({ i \in 1..Len(s) : s[i] = e })

\* a capture that started from a zero retry state, with a payload that is sent
FreshRequest(c) == c.snap = 0 /\ Base64Data(c.img) # ""

\* C1 (as claimed): a capture whose every response is a non-success is
\* resubmitted exactly 3 times, its failures announce retry 1, 2, 3 in that
\* order, and no request follows the 4th failure.
C1_ThreeRetriesThenMock ==
  \A c \in requests :
    FreshRequest(c) =>
      /\ c.announced = UpTo(Len(c.announced))
      /\ Len(c.announced) <= maxRetries
      /\ c.sent <= maxRetries + 1

\* C2 (as claimed): a chat message whose every response is a non-success is
\* sent at most 4 times (3 retries), and the log then holds one apology; until
\* then nothing but the user's message has been appended for it.
C2_ThreeRetriesThenApology ==
  /\ \A c \in chats : c.sent <= maxRetries + 1
  /\ Count(messages, Apology) <= 1
  /\ \A c \in chats : Count(messages, Apology) = 0

\* C3 (as claimed, in the form a finite run refutes): when the only pending
\* request of a page has failed before and now settles, leaving nothing
\* pending, the page is idle: isProcessing is false.
SettlesAfterFailure ==
  \/ \E c \in requests :
       /\ requests = {c}
       /\ Len(c.announced) > 0
       /\ requests' = {}
  \/ \E c \in chats :
       /\ chats = {c}
       /\ Len(c.announced) > 0
       /\ chats' = {}
C3_IdleAfterFailure == [][SettlesAfterFailure => ~isProcessing']_vars

\* C4 (as claimed): at most one analysis request and at most one chat request
\* is pending (awaiting its response or its retry timer) at any time.
C4_OnePendingRequest == Cardinality(requests) <= 1 /\ Cardinality(chats) <= 1

\* C5 (as claimed): once the most recent capture has stored its result, no
\* older request replaces it.
C5_NoStaleOverwrite ==
  [][(captures > 0 /\ analysisResult.id = captures)
       => analysisResult'.id >= analysisResult.id]_vars

\* ------------------------------------------------ the interpreter claims
\* the rules of section 4.4 in their order, as (intent, keywords)
ScanRules ==
  << << "home", {"go back", "go home"} >>,
     << "cross", {"go to gpt", "go to assistant"} >>,
     << "start", {"start camera", "open camera"} >>,
     << "stop", {"stop camera", "close camera"} >>,
     << "capture", {"take picture", "snap photo", "analyze"} >>,
     << "emergency", {"emergency"} >> >>

ChatRules ==
  << << "home", {"go back", "go home"} >>,
     << "cross", {"go to scan", "video analyzer"} >>,
     << "emergency", {"emergency"} >> >>

\* the rules some keyword of which occurs in the lower-cased utterance
Matching(rules, t) ==
  { i \in 1..Len(rules) : \E kw \in rules[i][2] : Has(ToLowerCase(Chars(t)), kw) }

\* the same, tabulated over the utterances
ScanMatching == [t \in Utterances |-> Matching(ScanRules, t)]
ChatMatching == [t \in Utterances |-> Matching(ChatRules, t)]
SaysHome ==
  [t \in Utterances |->
     Has(ToLowerCase(Chars(t)), "go home") \/ Has(ToLowerCase(Chars(t)), "go back")]

\* the earliest matching rule's intent, or the page's fallback
Earliest(rules, matching, fallback) ==
  IF matching = {} THEN fallback
  ELSE rules[CHOOSE i \in matching : \A j \in matching : i <= j][1]

Expected(t, cam) ==
  IF page = "scan"
  THEN Earliest(ScanRules, ScanMatching[t], IF cam THEN "question" ELSE "help")
  ELSE Earliest(ChatRules, ChatMatching[t], "chat")

HelpHint == "You can say \"take picture\", \"start camera\", \"stop camera\", or \"go home\""

\* what an intent is seen to do, as (op, arg) pairs
Signature(intent, t) ==
  CASE intent = "home" -> { << "speak", "Going back to home page" >>, << "push", "/" >> }
    [] intent = "cross" ->
         IF page = "scan"
         THEN { << "speak", "Opening voice assistant" >>, << "push", "/gpt" >> }
         ELSE { << "speak", "Opening video analyzer" >>, << "push", "/scan" >> }
    [] intent = "start" -> { << "speak", "Starting camera" >>, << "startCamera", "" >> }
    [] intent = "stop" -> { << "speak", "Stopping camera" >>, << "stopCamera", "" >> }
    [] intent = "capture" ->
         { << "speak", "Taking picture for analysis" >>, << "captureImage", "" >>,
           << "processImage", DefaultPrompt >>, << "toast", "Camera not active" >> }
    [] intent = "emergency" ->
         { << "speak", "Activating emergency contact" >>,
           << "toast", "Emergency Contact" >> }
    [] intent = "question" ->
         { << "setUserQuestion", t >>, << "captureImage", t >>, << "processImage", t >> }
    [] intent = "help" -> { << "speak", HelpHint >>, << "resetTranscript", "" >> }
    [] intent = "chat" -> { << "handleUserMessage", t >>, << "resetTranscript", "" >> }

Did(e) == << e.op, e.arg >>
Seen(cam) == { Did(fx[i]) : i \in { k \in 1..Len(fx) : fx[k].cam = cam } }

\* C6: whatever the transcript effect does for an utterance is what the
\* earliest matching rule of the page's ordered list prescribes (the fallback
\* when none matches); an utterance containing "go home" or "go back" only
\* ever navigates home, whatever the camera state and its other keywords.
C6_FirstMatchWins ==
  /\ \A i \in 1..Len(fx) :
       Did(fx[i]) \in Signature(Expected(fxCmd, fx[i].cam), fxCmd)
  /\ (fx # << >> /\ SaysHome[fxCmd])
       => /\ route = "/"
          /\ \A i \in 1..Len(fx) : Did(fx[i]) \in Signature("home", fxCmd)

\* C6 witness: an utterance with keywords of two rules was interpreted
C6_Witness ==
  /\ fx # << >>
  /\ page = "scan"
  /\ Cardinality(ScanMatching[fxCmd]) >= 2

\* C7 (as claimed): with the camera active, "take a picture please" is
\* the capture-and-analyze intent: confirmation spoken, default prompt.
C7_TakeAPictureCaptures ==
  (page = "scan" /\ fxCmd = "take a picture please")
    => Seen(TRUE) \subseteq Signature("capture", fxCmd)

\* C7 (amended): "take a picture please" contains none of "take picture",
\* "snap photo", "analyze": with the camera active it is submitted as a
\* free-form question, with no confirmation; "take picture please" is the
\* capture-and-analyze intent, confirmed and sent with the default prompt.
C7_TakeAPictureIsQuestion ==
  /\ (page = "scan" /\ fxCmd = "take a picture please" /\ Seen(TRUE) # {})
       => Seen(TRUE) = Signature("question", fxCmd)
  /\ (page = "scan" /\ fxCmd = "take picture please" /\ Seen(TRUE) # {})
       => Seen(TRUE) = { << "speak", "Taking picture for analysis" >>,
                         << "captureImage", "" >>,
                         << "processImage", DefaultPrompt >> }

C7_Witness ==
  /\ page = "scan"
  /\ fxCmd = "take a picture please"
  /\ << "processImage", "take a picture please" >> \in Seen(TRUE)

\* C8: with the camera active, an utterance without any command keyword is
\* handed to captureImage as the question and submitted as the prompt; the
\* help hint is not spoken for it.
C8_QuestionAgainstFrame ==
  (page = "scan" /\ Seen(TRUE) # {} /\ ScanMatching[fxCmd] = {})
    => /\ << "captureImage", fxCmd >> \in Seen(TRUE)
       /\ << "processImage", fxCmd >> \in Seen(TRUE)
       /\ << "speak", HelpHint >> \notin Seen(TRUE)
       /\ << "toast", "Camera not active" >> \notin Seen(TRUE)

C8_Witness ==
  /\ page = "scan"
  /\ fxCmd = "what is in front of me"
  /\ Seen(TRUE) # {}
  /\ \E c \in requests : c.q = "what is in front of me"

\* C9 (as claimed): an utterance's side effect (navigation, camera call,
\* pipeline submission) runs once, right after a spoken confirmation.
SideEffects == { "push", "startCamera", "stopCamera", "captureImage", "handleUserMessage" }
C9_SideEffectOnce ==
  Cardinality({ i \in 1..Len(fx) : fx[i].op \in SideEffects }) <= 1

\* C10: a captureImage call with the camera inactive draws no frame, submits
\* nothing and leaves isProcessing, retryCount and the result as they were.
RejectedCapture ==
  /\ Len(fx') > Len(fx)
  /\ Did(fx'[Len(fx')]) = << "toast", "Camera not active" >>
C10_InactiveCaptureChangesNothing ==
  [][RejectedCapture =>
       UNCHANGED << captures, requests, isProcessing, retryCount, analysisResult >>]_vars

\* C10 witness: a capture was rejected while a retry count was stored
C10_Witness ==
  /\ fx # << >>
  /\ Did(fx[Len(fx)]) = << "toast", "Camera not active" >>
  /\ retryCount > 0
  /\ isProcessing

\* ------------------------------------------------- the camera claims
\* a step of a handler that calls stopCamera: the voice command, the stop
\* button, the back button
StopCameraCalled == ScanEffectStop \/ StopButton \/ ScanBackButton

\* C11: stopCamera called with no stream attached changes nothing: the
\* camera flag stays false, no track is stopped, no "Camera stopped" toast is
\* shown; so a second stopCamera right after a first adds nothing to it.
C11_StopInactiveIsNoOp ==
  [][(StopCameraCalled /\ ~srcObject)
       => /\ ~cameraActive'
          /\ UNCHANGED << cameraActive, srcObject, liveStreams, camPending, camNotice >>]_vars

\* C11 witness: stopCamera ran twice for one utterance, the second time
\* with no stream attached, and one "Camera stopped" toast is what is shown
C11_Witness ==
  /\ Cardinality({ i \in 1..Len(fx) : fx[i].op = "stopCamera" }) >= 2
  /\ ~srcObject
  /\ ~cameraActive
  /\ camNotice = Notice("Camera stopped", "")

\* C14: a startCamera call whose getUserMedia is rejected leaves the camera
\* flag and the preview as they were (inactive and without a stream when
\* the camera was inactive) and shows and speaks "Could not access camera";
\* the camera flag is never true without a stream attached to the preview.
C14_FailedStartStaysInactive ==
  /\ [](cameraActive => srcObject)
  /\ [][CameraDenied =>
         /\ UNCHANGED << cameraActive, srcObject, liveStreams >>
         /\ ~cameraActive => (~cameraActive' /\ ~srcObject')
         /\ camNotice'.toast = "Camera Error"
         /\ camNotice'.spoken = CameraErrorText]_vars

\* C14 witness: a rejected start on an inactive camera
C14_Witness ==
  /\ camNotice = Notice("Camera Error", CameraErrorText)
  /\ camPending = 0
  /\ ~cameraActive
  /\ ~srcObject
  /\ liveStreams = 0

\* ------------------------------------------------- the fallback claims
Disclaimer(q) ==
  << " Regarding your question: \"", q,
     "\", I'm currently unable to provide a specific answer as I'm operating in offline mode." >>

\* request c settles in this step with a result that is not the service's
FallsBack(c) ==
  /\ c \in requests
  /\ c \notin requests'
  /\ analysisResult' # analysisResult
  /\ analysisResult'.id = c.id
  /\ analysisResult'.text # << "analysis" >>

\* C12: the fallback result is one of the five canned sentences, followed,
\* when the request had a non-empty question q, by the fixed disclaimer with
\* q in it verbatim, and by nothing when it had no question.
C12_MockResponseShape ==
  [][\A c \in requests :
       FallsBack(c) =>
         \E i \in 1..5 :
           analysisResult'.text =
             IF c.q # "" THEN << MOCK_RESPONSES[i] >> \o Disclaimer(c.q)
             ELSE << MOCK_RESPONSES[i] >>]_vars

\* C12 witness: the fifth sentence was stored with the disclaimer for a
\* spoken question
C12_Witness ==
  analysisResult.text = << MOCK_RESPONSES[5] >> \o Disclaimer("what is in front of me")

\* ---------------------------------------------------- the retry claims
\* a step that starts a user-initiated request: a capture whose frame is
\* submitted, or a spoken chat message
NewRequestStarts ==
  \/ /\ captures' = captures + 1
     /\ \E c \in requests' : c.id = captures' /\ c.phase = "fetch"
  \/ ChatEffectMessage

\* a step that resubmits a request from its retry timer
Resubmits == RetryTimer \/ ChatRetryTimer

\* C13 (as claimed): a new capture or chat message sets the retry count to
\* zero, and the resubmission of a request by its retry timer does not set a
\* non-zero retry count back to zero.
C13_ResetOnlyOnNewRequest ==
  [][/\ NewRequestStarts => retryCount' = 0
     /\ Resubmits => ~(retryCount > 0 /\ retryCount' = 0)]_vars

\* C15 (as claimed): a request whose image has no data after the prefix is
\* never sent and never waits for a retry: no retry is announced for it.
C15_EmptyPayloadFailsFast ==
  \A c \in requests :
    Base64Data(c.img) = "" =>
      /\ c.sent = 0
      /\ c.phase # "timer"
      /\ c.announced = << >>

\* ------------------------------------------- the speech adapter claims
\* a step in which a page calls startListening
StartListeningCalled == (ScanToggleListening \/ ChatToggleListening) /\ ~isListening

\* C16: a recognition error and the end of a session leave the adapter's
\* isListening false; it becomes true again only in a step that calls
\* startListening; startListening on an engine that can start (it exists
\* and has no session) sets isListening true and clears the error.
C16_AdapterListening ==
  [][/\ (OnError \/ OnEnd) => ~recActive'
     /\ (~recActive /\ recActive') => StartListeningCalled
     /\ (StartListeningCalled /\ recognition /\ engine = "idle")
          => (recActive' /\ recError' = "null")]_vars

\* C16 witness: a session ended by an error, not restarted
C16_Witness ==
  /\ recError = "no-speech"
  /\ engine = "idle"
  /\ ~recActive

\* ------------------------------------------- the processing-flag claims
\* analysis request c receives its last response in this step
Settles(c) ==
  /\ c \in requests
  /\ c.phase = "fetch"
  /\ \A d \in requests' : d.id # c.id

\* the chat request c receives its last response in this step
ChatSettles(c) ==
  /\ c \in chats
  /\ c.phase = "fetch"
  /\ chats' = chats \ {c}

\* the service answers c's first and only submission with success
SucceedsAtOnce(c) ==
  /\ Settles(c)
  /\ c.sent = 1
  /\ c.announced = << >>
  /\ analysisResult' = [id |-> c.id, text |-> << "analysis" >>]

ClearsProcessing == isProcessing /\ ~isProcessing'

\* some invocation that read a retry count of maxRetries or more ends in
\* this step: a pending request, or a capture that fails before its fetch
MaxedInvocationEnds ==
  \/ \E c \in requests : Settles(c) /\ c.snap >= maxRetries
  \/ \E c \in chats : ChatSettles(c) /\ c.snap >= maxRetries
  \/ captures' = captures + 1 /\ retryCount >= maxRetries

C18_RetryReadsIssuedCount ==
  /\ \A c \in requests \cup chats :
       /\ \A i \in 1..Len(c.announced) : c.announced[i] = c.snap + 1
       /\ c.phase = "timer" => c.snap < maxRetries
  /\ \A c \in requests \cup chats :
       (c.phase = "fetch" /\ c.announced # << >>) => c.snap < maxRetries

\* C18 witness: a retry failed while the stored count was 1 and the count
\* of its invocation 0, on either page
C18_Witness ==
  \/ \E c \in requests : c.snap = 0 /\ c.announced = << 1, 1 >> /\ c.sent = 2
  \/ \E c \in chats : c.snap = 0 /\ c.announced = << 1, 1 >> /\ c.sent = 2

\* ------------------------------------------------------ the chat claims
\* the newest entry of the log is the service's answer
Answered == messages[Len(messages)] = [role |-> "assistant", content |-> "aiResponse"]

\* the microphone button of the chat page (disabled = isProcessing)
MicEnabled == ~isProcessing

\* C19 (as claimed, in the form a finite run refutes): once a chat message
\* has been answered with success and no request is pending, the page is
\* idle: isProcessing is false and the microphone button is enabled.
C19_ChatIdleAfterAnswer ==
  (page = "gpt" /\ chats = {} /\ Answered) => (~isProcessing /\ MicEnabled)

\* on the chat page isProcessing, once true, is never cleared
ChatProcessingSticks == [][(page = "gpt" /\ isProcessing) => isProcessing']_vars

IsPrefix(a, b) == Len(a) <= Len(b) /\ \A i \in 1..Len(a) : a[i] = b[i]

\* C20 (as claimed): the message log only grows at its end, and the message
\* of a chat request is in the log exactly once, whatever the number of its
\* retries.
C20_UserMessageOnce ==
  /\ [][IsPrefix(messages, messages')]_vars
  /\ [](\A c \in chats : Count(messages, [role |-> "user", content |-> c.msg]) = 1)

UserMessage(c) == [role |-> "user", content |-> c.msg]

\* the log as it was when the message of c was sent: what precedes the
\* first entry of that message
LogWhenSent(c) ==
  LET first == CHOOSE k \in 1..Len(messages) :
                 /\ messages[k] = UserMessage(c)
                 /\ \A j \in 1..(k - 1) : messages[j] # UserMessage(c)
  IN  SubSeq(messages, 1, first - 1)

\* C21: the body of every /api/chat request, a retry's too, is the log as it
\* was when the user's message was sent, in order, followed by that message,
\* which is its last element and occurs in it once.
C21_BodyIsHistoryThenMessage ==
  \A c \in chats :
    LET body == ChatBody(c) IN
    /\ body = LogWhenSent(c) \o << UserMessage(c) >>
    /\ body[Len(body)] = UserMessage(c)
    /\ Count(body, UserMessage(c)) = 1

\* C21 witness: a retry is in flight while the log holds the message twice
C21_Witness ==
  \E c \in chats :
    /\ c.phase = "fetch"
    /\ c.sent >= 2
    /\ Count(messages, UserMessage(c)) >= 2

\* ------------------------------------------------ the help-hint claim
\* the scan page is about to interpret a transcript without any command
\* keyword, listening, with the camera inactive
UnrecognizedWhileInactive ==
  /\ page = "scan"
  /\ Mounted
  /\ EffectDue
  /\ isListening
  /\ ~cameraActive
  /\ transcript # ""
  /\ ScanMatching[transcript] = {}

\* C22: for such a transcript the effect speaks the help hint, clears the
\* transcript and does nothing else: no capture, no request, no navigation,
\* no change of cameraActive, isProcessing, retryCount or analysisResult.
\* (What the effect did is read from fx, which holds MaxFx entries per
\* utterance: the hint and the reset are its two new entries when they fit,
\* and it has no new entry otherwise.)
C22_HelpHintOnly ==
  [][UnrecognizedWhileInactive =>
       /\ transcript' = ""
       /\ IF Len(fx) + 2 <= MaxFx
          THEN /\ Len(fx') = Len(fx) + 2
               /\ SubSeq(fx', 1, Len(fx)) = fx
               /\ Did(fx'[Len(fx') - 1]) = << "speak", HelpHint >>
               /\ Did(fx'[Len(fx')]) = << "resetTranscript", "" >>
          ELSE fx' = fx
       /\ UNCHANGED << cameraActive, isProcessing, retryCount, analysisResult,
                       userQuestion, captures, requests, camVars, route,
                       isListening >>]_vars

\* C22 witness: the hint was given while a request was pending and a retry
\* count stored
C22_Witness ==
  /\ page = "scan"
  /\ fx # << >>
  /\ Did(fx[Len(fx)]) = << "resetTranscript", "" >>
  /\ transcript = ""
  /\ ~cameraActive
  /\ requests # {}
  /\ retryCount > 0

\* ------------------------------------------------- the stream claim
\* C23 (as claimed): at most one acquired stream has running tracks, and
\* none has once stopCamera has detached the preview.
C23_NoStreamOutlivesStop ==
  /\ liveStreams <= 1
  /\ ~srcObject => liveStreams = 0

\* ------------------------------------------- the listening-flag claim
\* C24 (as claimed): while a page's isListening is true the adapter's
\* isListening is true: a session is open.
C24_PageAgreesWithAdapter == (Mounted /\ isListening) => recActive
====
